---- MODULE Spec2Model ----
(***************************************************************************)
(* PhishNot backend: the serving process (backend/main.py) and the         *)
(* training script (backend/train_model.py), which share the two artifact  *)
(* files phish_model.pkl and vectorizer.pkl on disk.                       *)
(*                                                                         *)
(* The serving process is one asyncio event loop: load_models is           *)
(* synchronous and the handlers contain no await, so each handler is one   *)
(* atomic step of the process.  The training script is a separate OS       *)
(* process, so its file writes interleave with the file accesses of        *)
(* load_models.                                                            *)
(***************************************************************************)
EXTENDS Integers, Sequences, FiniteSets, TLC

\* ------------------------------------------------------------------ bounds
MaxLen == 4          \* longest request text, in characters
MaxCoef == 8         \* magnitude of a fitted coefficient
MaxIntercept == 1    \* magnitude of a fitted intercept
MaxLabels == 2       \* longest label column mapped on its own
MaxRows == 6         \* most rows of a training CSV

\* ------------------------------------------------------- numeric precision
\* Feature values and decision values are fixed-point numbers with FScale
\* units per 1.0; probabilities are fixed-point with Scale units per 1.0.
FScale == 2
Scale == 1000

\* ------------------------------------------------------------------- texts
Chars == {" ", "a", "b"}
Whitespace == {" "}
Texts == UNION {[1..n -> Chars] : n \in 0..MaxLen}

None == [kind |-> "None"]

\* str.strip(): drop leading and trailing whitespace
RECURSIVE lstrip(_)
lstrip(s) ==
    IF s # <<>> /\ Head(s) \in Whitespace THEN lstrip(Tail(s)) ELSE s

RECURSIVE rstrip(_)
rstrip(s) ==
    IF s # <<>> /\ s[Len(s)] \in Whitespace
    THEN rstrip(SubSeq(s, 1, Len(s) - 1))
    ELSE s

strip(s) == rstrip(lstrip(s))

\* the request text has no character other than whitespace (recorded with
\* each response, independently of the handler's own test)
OnlyWhitespace(email) == \A i \in 1..Len(email) : email[i] \in Whitespace

\* the emptiness test without the strip() half
IsEmptyEmailNoStrip(email) == email = <<>>

\* `not request.email or not request.email.strip()`
IsEmptyEmail(email) == email = <<>> \/ strip(email) = <<>>

\* ------------------------------------------------------------- vectorizer
\* TfidfVectorizer's analyzer: words are maximal runs of word characters of
\* length two or more; the n-grams are the words followed by the bigrams
\* (adjacent words joined by one space).
RECURSIVE SplitWords(_, _)
SplitWords(s, cur) ==
    LET flush == IF Len(cur) >= 2 THEN <<cur>> ELSE <<>>
    IN  IF s = <<>> THEN flush
        ELSE IF Head(s) \in Whitespace
             THEN flush \o SplitWords(Tail(s), <<>>)
             ELSE SplitWords(Tail(s), Append(cur, Head(s)))

Analyze(text) ==
    LET w == SplitWords(text, <<>>)
    IN  w \o [i \in 1..(Len(w) - 1) |-> w[i] \o <<" ">> \o w[i + 1]]

TermCount(grams, t) == Cardinality({i \in 1..Len(grams) : grams[i] = t})

RECURSIVE SumSeq(_)
SumSeq(s) == IF s = <<>> THEN 0 ELSE Head(s) + SumSeq(Tail(s))

Isqrt(n) == CHOOSE r \in 0..n : r * r <= n /\ (r + 1) * (r + 1) > n

\* vectorizer.transform([text]): tf * idf per vocabulary entry, tokens outside
\* the vocabulary are ignored, then L2 normalisation (the zero vector stays
\* zero).  The vocabulary is only read.
Transform(vec, text) ==
    LET grams == Analyze(text)
        x == [i \in 1..Len(vec.vocabulary) |->
                 TermCount(grams, vec.vocabulary[i]) * vec.idf[i]]
        norm == Isqrt(SumSeq([i \in 1..Len(x) |-> x[i] * x[i]]))
    IN  IF norm = 0 THEN [i \in 1..Len(x) |-> 0]
        ELSE [i \in 1..Len(x) |-> (x[i] * FScale) \div norm]

\* ------------------------------------------------------------- classifier
\* expit(d) for d >= 0 in FScale units, rounded to Scale units; from 8.0 on
\* the rounded value is 1.0
ExpitTable ==
    <<622, 731, 818, 881, 924, 953, 971, 982,
      989, 993, 996, 998, 998, 999, 999>>

Expit(d) ==
    IF d = 0 THEN Scale \div 2
    ELSE IF d > 0
         THEN (IF d <= Len(ExpitTable) THEN ExpitTable[d] ELSE Scale)
         ELSE Scale - (IF -d <= Len(ExpitTable) THEN ExpitTable[-d] ELSE Scale)

\* X has as many features as the model was fitted with
DimsMatch(clf, v) == Len(v) = Len(clf.coef)

\* model.decision_function: w.v + b, in FScale units
DecisionFunction(clf, v) ==
    SumSeq([i \in 1..Len(v) |-> clf.coef[i] * v[i]]) + clf.intercept * FScale

\* a decision rule that also sends the boundary value to class 1
PredictTieToPhishing(clf, v) == IF DecisionFunction(clf, v) >= 0 THEN 1 ELSE 0

\* model.predict(X)[0]: class 1 when the decision value is positive
Predict(clf, v) == IF DecisionFunction(clf, v) > 0 THEN 1 ELSE 0

\* model.predict_proba(X)[0]: <<P(class 0), P(class 1)>>, 1-based here
PredictProba(clf, v) ==
    LET p == Expit(DecisionFunction(clf, v))
    IN  <<Scale - p, p>>

\* ------------------------------------------------------------- artifacts
\* What a training run can produce: a fitted vocabulary with its idf
\* weights (FScale units) and a coefficient per vocabulary entry plus an
\* intercept.  The fit itself is scikit-learn's; its result is drawn from
\* this set.
Vocabularies ==
    { [vocabulary |-> << <<"a", "a">> >>, idf |-> <<2>>],
      [vocabulary |-> << <<"a", "a">>, <<"a", "b">> >>, idf |-> <<2, 3>>] }

CoefValues == {-MaxCoef, MaxCoef}
InterceptValues == {-MaxIntercept, 0, MaxIntercept}

FitOutcomes ==
    UNION { { [vocabulary |-> voc.vocabulary, idf |-> voc.idf,
               coef |-> w, intercept |-> b] :
                w \in [1..Len(voc.vocabulary) -> CoefValues],
                b \in InterceptValues } : voc \in Vocabularies }

\* the pickled objects: joblib.dump(model, ...) and joblib.dump(vectorizer, ...)
ModelOf(f, r) ==
    [kind |-> "model", run |-> r, coef |-> f.coef, intercept |-> f.intercept]

VectorizerOf(f, r) ==
    [kind |-> "vectorizer", run |-> r, vocabulary |-> f.vocabulary, idf |-> f.idf]

\* a file that does not exist, and a file joblib.load cannot deserialize
\* (truncated by a write in progress, or written by another library version)
Absent == [kind |-> "absent"]
Corrupt == [kind |-> "corrupt"]

\* the fit that produced the files present before the training run starts
PriorFit ==
    [vocabulary |-> << <<"a", "a">>, <<"a", "b">> >>, idf |-> <<2, 3>>,
     coef |-> <<MaxCoef, -MaxCoef>>, intercept |-> 0]

\* ------------------------------------------------------------------ state
VARIABLES
    modelFile,          \* backend/phish_model.pkl
    vecFile,            \* backend/vectorizer.pkl
    phase,              \* serving process: off, starting, running, stopped, crashed
    lpc,                \* position inside load_models
    model,              \* global model
    vectorizer,         \* global vectorizer
    model_load_error,   \* global model_load_error
    loadExc,            \* exception load_models raised in this process, or "none"
    loadCalls,          \* calls of load_models in this process
    resp,               \* last response sent by this process
    healthSeen,         \* what the last GET /health of this process reported
    tpc,                \* position of the training script
    fitted,             \* the (vectorizer, model) pair train_model holds
    preModelFile,       \* phish_model.pkl as it was when train_model started
    preVecFile,         \* vectorizer.pkl as it was when train_model started
    tr                  \* locals of train_model before the persistence step

vars == <<modelFile, vecFile, phase, lpc, model, vectorizer, model_load_error,
          loadExc, loadCalls, resp, healthSeen, tpc, fitted, preModelFile,
          preVecFile, tr>>

diskVars == <<modelFile, vecFile>>
trainVars == <<tpc, fitted, preModelFile, preVecFile, tr>>
globalVars == <<model, vectorizer, model_load_error>>

Str(s) == [kind |-> "str", value |-> s]

\* train_model has not been given a dataset yet
NoTraining ==
    [pc |-> "none", source |-> "none", rows |-> <<>>, df |-> <<>>,
     X_train |-> <<>>, y_train |-> <<>>, X_test |-> <<>>, y_test |-> <<>>,
     vec |-> None, clf |-> None]

NoResp ==
    [kind |-> "none", status |-> 0, phishing |-> FALSE, confidence |-> 0,
     empty |-> FALSE, transformed |-> FALSE, predicted |-> FALSE,
     decision |-> 0, score |-> 0, oov |-> FALSE, zero |-> FALSE,
     model_loaded |-> FALSE, vectorizer_loaded |-> FALSE, error |-> FALSE]

Init ==
    /\ modelFile \in {Absent, Corrupt, ModelOf(PriorFit, "prior")}
    /\ vecFile \in {Absent, Corrupt, VectorizerOf(PriorFit, "prior")}
    /\ phase = "off"
    /\ lpc = "none"
    /\ model = None
    /\ vectorizer = None
    /\ model_load_error = None
    /\ loadExc = "none"
    /\ loadCalls = 0
    /\ resp = NoResp
    /\ healthSeen = "none"
    /\ tpc = "idle"
    /\ fitted = None
    /\ preModelFile = modelFile
    /\ preVecFile = vecFile
    /\ tr = NoTraining

\* ------------------------------------------------------ serving: startup
\* A new python process imports main.py (lines 16-18 set the globals), and
\* lifespan calls load_models, whose first statement clears model_load_error.
process_start ==
    /\ phase \in {"off", "stopped", "crashed"}
    /\ phase' = "starting"
    /\ model' = None
    /\ vectorizer' = None
    /\ model_load_error' = None
    /\ loadExc' = "none"
    /\ loadCalls' = 1
    /\ resp' = NoResp
    /\ healthSeen' = "none"
    /\ lpc' = "check_model"
    /\ UNCHANGED <<diskVars, trainVars>>

\* if not model_path.exists(): ... raise FileNotFoundError
load_models_check_model ==
    /\ phase = "starting" /\ lpc = "check_model"
    /\ IF modelFile = Absent
       THEN /\ model_load_error' = Str("Model file not found")
            /\ loadExc' = "FileNotFoundError"
            /\ lpc' = "raised"
       ELSE /\ lpc' = "check_vectorizer"
            /\ UNCHANGED <<model_load_error, loadExc>>
    /\ UNCHANGED <<diskVars, trainVars, healthSeen, phase, model, vectorizer, loadCalls, resp>>

\* the vectorizer check raising without recording model_load_error
load_models_check_vectorizer_unrecorded ==
    /\ phase = "starting" /\ lpc = "check_vectorizer"
    /\ IF vecFile = Absent
       THEN /\ loadExc' = "FileNotFoundError"
            /\ lpc' = "raised"
       ELSE /\ lpc' = "load_model"
            /\ UNCHANGED loadExc
    /\ UNCHANGED <<modelFile, vecFile, tpc, fitted, preModelFile, preVecFile,
                   tr, healthSeen, phase, model, vectorizer, model_load_error,
                   loadCalls, resp>>

\* if not vectorizer_path.exists(): ... raise FileNotFoundError
load_models_check_vectorizer ==
    /\ phase = "starting" /\ lpc = "check_vectorizer"
    /\ IF vecFile = Absent
       THEN /\ model_load_error' = Str("Vectorizer file not found")
            /\ loadExc' = "FileNotFoundError"
            /\ lpc' = "raised"
       ELSE /\ lpc' = "load_model"
            /\ UNCHANGED <<model_load_error, loadExc>>
    /\ UNCHANGED <<diskVars, trainVars, healthSeen, phase, model, vectorizer, loadCalls, resp>>

\* joblib.load succeeds on a file holding a complete pickle
Loadable(file) == file.kind \in {"model", "vectorizer"}

\* model = joblib.load(model_path), inside try/except Exception
load_models_load_model ==
    /\ phase = "starting" /\ lpc = "load_model"
    /\ IF Loadable(modelFile)
       THEN /\ model' = modelFile
            /\ lpc' = "load_vectorizer"
            /\ UNCHANGED <<model_load_error, loadExc>>
       ELSE /\ model_load_error' = Str("Error loading model files")
            /\ loadExc' = "RuntimeError"
            /\ lpc' = "raised"
            /\ UNCHANGED model
    /\ UNCHANGED <<diskVars, trainVars, healthSeen, phase, vectorizer, loadCalls, resp>>

\* vectorizer = joblib.load(vectorizer_path), inside the same try
load_models_load_vectorizer ==
    /\ phase = "starting" /\ lpc = "load_vectorizer"
    /\ IF Loadable(vecFile)
       THEN /\ vectorizer' = vecFile
            /\ lpc' = "returned"
            /\ UNCHANGED <<model_load_error, loadExc>>
       ELSE /\ model_load_error' = Str("Error loading model files")
            /\ loadExc' = "RuntimeError"
            /\ lpc' = "raised"
            /\ UNCHANGED vectorizer
    /\ UNCHANGED <<diskVars, trainVars, healthSeen, phase, model, loadCalls, resp>>

\* lifespan without FileNotFoundError in its except clause
LifespanCatchesNoFileNotFound(exc) == exc \in {"RuntimeError", "Exception"}

\* lifespan without RuntimeError in its except clause
LifespanCatchesNoRuntimeError(exc) == exc \in {"FileNotFoundError", "Exception"}

\* the except clauses of lifespan: (FileNotFoundError, RuntimeError), then
\* Exception
LifespanCatches(exc) == exc \in {"FileNotFoundError", "RuntimeError", "Exception"}

\* lifespan reaches `yield`: the application is running
lifespan_yield ==
    /\ phase = "starting" /\ lpc \in {"returned", "raised"}
    /\ phase' = IF lpc = "returned" \/ LifespanCatches(loadExc)
                THEN "running" ELSE "crashed"
    /\ lpc' = "none"
    /\ UNCHANGED <<diskVars, trainVars, healthSeen, globalVars, loadExc, loadCalls, resp>>

\* after `yield`: model = None; vectorizer = None
lifespan_shutdown ==
    /\ phase = "running"
    /\ phase' = "stopped"
    /\ model' = None
    /\ vectorizer' = None
    /\ UNCHANGED <<diskVars, trainVars, healthSeen, lpc, model_load_error, loadExc,
                   loadCalls, resp>>

\* ----------------------------------------------------- serving: requests
\* the text has a non-whitespace character and none of its n-grams is an
\* entry of the fitted vocabulary
OutOfVocabulary(vec, email) ==
    /\ ~OnlyWhitespace(email)
    /\ \A i \in 1..Len(Analyze(email)) :
           \A j \in 1..Len(vec.vocabulary) :
               Analyze(email)[i] # vec.vocabulary[j]

IsZeroVector(v) == \A i \in 1..Len(v) : v[i] = 0

\* the availability test with `and` in place of `or`
ModelsNotLoadedBoth(m, v) == m = None /\ v = None

\* `model is None or vectorizer is None`
ModelsNotLoaded(m, v) == m = None \/ v = None

\* reporting the class-1 probability whatever the prediction
ConfidenceIndexClassOne(prediction) == 2

\* reporting the probability of the class that was not predicted
ConfidenceIndexSwapped(prediction) == IF prediction = 1 THEN 1 ELSE 2

\* the class whose probability predict reports: `if prediction == 1`
ConfidenceIndex(prediction) == IF prediction = 1 THEN 2 ELSE 1

\* The body of predict for one request text.
PredictResponse(email) ==
    LET base == [NoResp EXCEPT !.kind = "predict",
                               !.empty = OnlyWhitespace(email)]
    IN  IF ModelsNotLoaded(model, vectorizer)
        THEN [base EXCEPT !.status = 503]
        ELSE IF IsEmptyEmail(email)
        THEN [base EXCEPT !.status = 400]
        ELSE IF vectorizer.kind # "vectorizer"
        THEN \* attribute lookup on a non-vectorizer raises inside the try
             [base EXCEPT !.status = 500]
        ELSE LET email_vectorized == Transform(vectorizer, email)
                 seen == [base EXCEPT
                            !.transformed = TRUE,
                            !.oov = OutOfVocabulary(vectorizer, email),
                            !.zero = IsZeroVector(email_vectorized)]
             IN  IF model.kind # "model"
                 THEN [seen EXCEPT !.status = 500]
                 ELSE IF ~DimsMatch(model, email_vectorized)
                 THEN \* model.predict raises ValueError, caught by the try
                      [seen EXCEPT !.status = 500, !.predicted = TRUE]
                 ELSE LET prediction == Predict(model, email_vectorized)
                          probabilities == PredictProba(model, email_vectorized)
                      IN  [seen EXCEPT
                             !.status = 200,
                             !.predicted = TRUE,
                             !.phishing = (prediction = 1),
                             !.confidence =
                                 probabilities[ConfidenceIndex(prediction)],
                             !.decision =
                                 DecisionFunction(model, email_vectorized),
                             !.score = probabilities[2]]

\* a predict whose except branch also drops the model
predict_dropping_model ==
    /\ phase = "running"
    /\ \E email \in Texts : resp' = PredictResponse(email)
    /\ model' = IF resp'.status = 500 THEN None ELSE model
    /\ UNCHANGED <<modelFile, vecFile, tpc, fitted, preModelFile, preVecFile,
                   tr, healthSeen, vectorizer, model_load_error, phase, lpc,
                   loadExc, loadCalls>>

\* POST /predict
predict ==
    /\ phase = "running"
    /\ \E email \in Texts : resp' = PredictResponse(email)
    /\ UNCHANGED <<diskVars, trainVars, healthSeen, globalVars, phase, lpc, loadExc,
                   loadCalls>>

\* what a client reads off a /health body: both flags true, or not
HealthFlags(r) ==
    IF r.model_loaded /\ r.vectorizer_loaded THEN "both" ELSE "degraded"

\* reporting vectorizer_loaded from the model global
StatusFieldsModelTwice(k) ==
    [NoResp EXCEPT !.kind = k, !.status = 200,
                   !.model_loaded = (model # None),
                   !.vectorizer_loaded = (model # None),
                   !.error = (model_load_error # None)]

\* the fields root and health both report
StatusFields(k) ==
    [NoResp EXCEPT !.kind = k, !.status = 200,
                   !.model_loaded = (model # None),
                   !.vectorizer_loaded = (vectorizer # None),
                   !.error = (model_load_error # None)]

\* GET /
root ==
    /\ phase = "running"
    /\ resp' = StatusFields("root")
    /\ UNCHANGED <<diskVars, trainVars, healthSeen, globalVars, phase, lpc, loadExc,
                   loadCalls>>

\* a health handler that re-reads phish_model.pkl on every call
health_reloading ==
    /\ phase = "running"
    /\ resp' = [NoResp EXCEPT !.kind = "health", !.status = 200,
                              !.model_loaded = (model # None),
                              !.vectorizer_loaded = (vectorizer # None),
                              !.error = (model_load_error # None)]
    /\ healthSeen' = IF model # None /\ vectorizer # None
                     THEN "both" ELSE "degraded"
    /\ model' = IF modelFile.kind = "model" THEN modelFile ELSE model
    /\ UNCHANGED <<modelFile, vecFile, tpc, fitted, preModelFile, preVecFile,
                   tr, vectorizer, model_load_error, phase, lpc, loadExc,
                   loadCalls>>

\* GET /health
health ==
    /\ phase = "running"
    /\ resp' = StatusFields("health")
    /\ healthSeen' = HealthFlags(resp')
    /\ UNCHANGED <<diskVars, trainVars, globalVars, phase, lpc, loadExc,
                   loadCalls>>

\* ---------------------------------------------------------------- training
serveVars == <<phase, lpc, model, vectorizer, model_load_error, loadExc,
               loadCalls, resp, healthSeen>>

\* train_model up to the end of evaluation: the fitted pair is in memory
train_model_fit ==
    /\ tpc = "idle"
    /\ \E f \in FitOutcomes : fitted' = f
    /\ tpc' = "fitted"
    /\ UNCHANGED <<diskVars, serveVars, preModelFile, preVecFile, tr>>

\* joblib.dump(model, model_path): the file is opened for writing
\* (truncated) ...
train_model_dump_model_open ==
    /\ tpc = "fitted"
    /\ modelFile' = Corrupt
    /\ tpc' = "writing_model"
    /\ UNCHANGED <<vecFile, serveVars, fitted, preModelFile, preVecFile, tr>>

\* ... and completed
train_model_dump_model_close ==
    /\ tpc = "writing_model"
    /\ modelFile' = ModelOf(fitted, "this")
    /\ tpc' = "model_saved"
    /\ UNCHANGED <<vecFile, serveVars, fitted, preModelFile, preVecFile, tr>>

\* joblib.dump(vectorizer, vectorizer_path): opened (truncated) ...
train_model_dump_vectorizer_open ==
    /\ tpc = "model_saved"
    /\ vecFile' = Corrupt
    /\ tpc' = "writing_vectorizer"
    /\ UNCHANGED <<modelFile, serveVars, fitted, preModelFile, preVecFile, tr>>

\* ... and completed; train_model returns
train_model_dump_vectorizer_close ==
    /\ tpc = "writing_vectorizer"
    /\ vecFile' = VectorizerOf(fitted, "this")
    /\ tpc' = "done"
    /\ UNCHANGED <<modelFile, serveVars, fitted, preModelFile, preVecFile, tr>>

\* An exception leaves train_model (caught and printed by __main__), or the
\* script is killed; nothing is cleaned up.
train_model_raise ==
    /\ tpc \in {"idle", "fitted", "writing_model", "model_saved",
                "writing_vectorizer"}
    /\ tpc' = "failed"
    /\ UNCHANGED <<diskVars, serveVars, fitted, preModelFile, preVecFile, tr>>

\* ------------------------------------------------- training: label column
UpperLetters ==
    <<"A", "B", "C", "D", "E", "F", "G", "H", "I", "J", "K", "L", "M",
      "N", "O", "P", "Q", "R", "S", "T", "U", "V", "W", "X", "Y", "Z">>
LowerLetters ==
    <<"a", "b", "c", "d", "e", "f", "g", "h", "i", "j", "k", "l", "m",
      "n", "o", "p", "q", "r", "s", "t", "u", "v", "w", "x", "y", "z">>

\* str.lower(), character by character
LowerChar(c) ==
    IF \E i \in 1..Len(UpperLetters) : UpperLetters[i] = c
    THEN LowerLetters[CHOOSE i \in 1..Len(UpperLetters) : UpperLetters[i] = c]
    ELSE c

Lower(str) == [i \in 1..Len(str) |-> LowerChar(str[i])]

\* the list in the lambda of load_or_create_dataset without its last entry
TruthyStringsShort ==
    { <<"1">>, <<"t", "r", "u", "e">>,
      <<"p", "h", "i", "s", "h", "i", "n", "g">>, <<"y", "e", "s">> }

\* ['1', 'true', 'phishing', 'yes', '1.0']
TruthyStrings ==
    { <<"1">>, <<"t", "r", "u", "e">>,
      <<"p", "h", "i", "s", "h", "i", "n", "g">>, <<"y", "e", "s">>,
      <<"1", ".", "0">> }

\* lambda x: 1 if str(x).lower() in [...] else 0, on str(x)
LabelTo01(strx) == IF Lower(strx) \in TruthyStrings THEN 1 ELSE 0

\* str(x) of the values pandas reads from a label column: integers, floats,
\* booleans, strings in several spellings, and a missing value
LabelValues ==
    { <<"1">>, <<"0">>, <<"2">>, <<"1", ".", "0">>, <<"0", ".", "0">>,
      <<"T", "r", "u", "e">>, <<"F", "a", "l", "s", "e">>,
      <<"t", "r", "u", "e">>,
      <<"P", "h", "i", "s", "h", "i", "n", "g">>,
      <<"p", "h", "i", "s", "h", "i", "n", "g">>,
      <<"s", "a", "f", "e">>, <<"Y", "E", "S">>, <<"y", "e", "s">>,
      <<"n", "o">>, <<"n", "a", "n">> }

LabelColumns == UNION {[1..n -> LabelValues] : n \in 1..MaxLabels}

\* a label column as read from the CSV, before the map
InitLabels ==
    /\ modelFile = Absent /\ vecFile = Absent
    /\ phase = "off" /\ lpc = "none"
    /\ model = None /\ vectorizer = None /\ model_load_error = None
    /\ loadExc = "none" /\ loadCalls = 0
    /\ resp = NoResp /\ healthSeen = "none"
    /\ tpc = "idle" /\ fitted = None
    /\ preModelFile = modelFile /\ preVecFile = vecFile
    /\ \E col \in LabelColumns :
           tr = [pc |-> "label_column", raw |-> col, label |-> <<>>]

\* df['label'] = df['label'].map(lambda x: ...)
map_labels ==
    /\ tr.pc = "label_column"
    /\ tr' = [tr EXCEPT !.pc = "labels_mapped",
                        !.label = [i \in 1..Len(tr.raw) |-> LabelTo01(tr.raw[i])]]
    /\ UNCHANGED <<diskVars, serveVars, tpc, fitted, preModelFile, preVecFile>>

NextLabels == map_labels

SpecLabels == InitLabels /\ [][NextLabels]_vars

\* ---------------------------------------------- training: the fit pipeline
Range(f) == {f[i] : i \in DOMAIN f}

\* text.split(): the maximal runs of non-whitespace characters
RECURSIVE SplitOnWhitespace(_, _)
SplitOnWhitespace(s, cur) ==
    LET flush == IF cur # <<>> THEN <<cur>> ELSE <<>>
    IN  IF s = <<>> THEN flush
        ELSE IF Head(s) \in Whitespace
             THEN flush \o SplitOnWhitespace(Tail(s), <<>>)
             ELSE SplitOnWhitespace(Tail(s), Append(cur, Head(s)))

\* ' '.join(...)
RECURSIVE JoinWithSpace(_)
JoinWithSpace(ws) ==
    IF ws = <<>> THEN <<>>
    ELSE IF Len(ws) = 1 THEN ws[1]
    ELSE ws[1] \o <<" ">> \o JoinWithSpace(Tail(ws))

\* preprocess_text: lower-case, then collapse whitespace
preprocess_text(text) == JoinWithSpace(SplitOnWhitespace(Lower(text), <<>>))

\* TfidfVectorizer(min_df=2, max_df=0.95); max_features=8000 is far above
\* the number of terms of the corpora considered here
MinDf == 2
MaxDfPercent == 95
\* train_test_split(test_size=0.2)
TestPercent == 20

\* code-point order of the characters of a preprocessed text
CharOrder == <<" ", ".", "0", "1", "2", "a", "b">>
CharRank(c) == CHOOSE i \in 1..Len(CharOrder) : CharOrder[i] = c

RECURSIVE SeqLess(_, _)
SeqLess(x, y) ==
    IF y = <<>> THEN FALSE
    ELSE IF x = <<>> THEN TRUE
    ELSE IF Head(x) # Head(y) THEN CharRank(Head(x)) < CharRank(Head(y))
    ELSE SeqLess(Tail(x), Tail(y))

\* the terms of a set in sorted order (feature indices follow sorted terms)
RECURSIVE SortTerms(_)
SortTerms(S) ==
    IF S = {} THEN <<>>
    ELSE LET m == CHOOSE x \in S : \A y \in S \ {x} : SeqLess(x, y)
         IN  <<m>> \o SortTerms(S \ {m})

\* number of documents of the corpus that contain the term
DocFreq(corpus, t) ==
    Cardinality({i \in 1..Len(corpus) : t \in Range(Analyze(corpus[i]))})

\* 1000 * ln(k), k = 1..12
LnTable ==
    <<0, 693, 1099, 1386, 1609, 1792, 1946, 2079, 2197, 2303, 2398, 2485>>

\* smoothed idf ln((1 + n) / (1 + df)) + 1, rounded to FScale units
Idf(n, df) ==
    ((LnTable[1 + n] - LnTable[1 + df] + 1000) * FScale + 500) \div 1000

\* the terms fit keeps: document frequency at least min_df and at most
\* max_df * n_docs
KeptTerms(corpus) ==
    { t \in UNION {Range(Analyze(corpus[i])) : i \in 1..Len(corpus)} :
        /\ DocFreq(corpus, t) >= MinDf
        /\ 100 * DocFreq(corpus, t) <= MaxDfPercent * Len(corpus) }

\* fit raises ValueError: max_df below min_df, or no term remains
VectorizerFitRaises(corpus) ==
    \/ MaxDfPercent * Len(corpus) < 100 * MinDf
    \/ KeptTerms(corpus) = {}

\* TfidfVectorizer.fit: the vocabulary (at most max_features terms, so all
\* of them at these sizes) and its idf weights
VectorizerFit(corpus) ==
    LET voc == SortTerms(KeptTerms(corpus))
    IN  [vocabulary |-> voc,
         idf |-> [i \in 1..Len(voc) |-> Idf(Len(corpus), DocFreq(corpus, voc[i]))]]

\* fitting on every document, held-out ones included
FitCorpusAll(X_train, X_test) == X_train \o X_test

\* what train_model passes to vectorizer.fit_transform
FitCorpus(X_train, X_test) == X_train

\* the rows a CSV can hold: an email text and str() of its label value
RowKinds ==
    << [email |-> <<"a", "a">>, label |-> <<"0">>],
       [email |-> <<"a", "a">>, label |-> <<"1">>],
       [email |-> <<"A", "b">>, label |-> <<"0">>],
       [email |-> <<"A", "b">>, label |-> <<"1">>],
       [email |-> <<" ">>, label |-> <<"0">>],
       [email |-> <<" ">>, label |-> <<"1">>] >>

\* CSV contents up to row order (the order only feeds the shuffle of the
\* split, which is drawn below)
Datasets ==
    UNION { { [i \in 1..n |-> RowKinds[k[i]]] :
                k \in { f \in [1..n -> 1..Len(RowKinds)] :
                          \A i \in 1..n, j \in 1..n : i < j => f[i] <= f[j] } } :
            n \in 0..MaxRows }

\* create_sample_dataset, scaled down from 30 + 30 emails to 3 + 3
SampleDataset ==
    << [email |-> <<"a", "a">>, label |-> 1],
       [email |-> <<"a", "a", " ", "a", "b">>, label |-> 1],
       [email |-> <<"a", "a", " ", "b", "b">>, label |-> 1],
       [email |-> <<"a", "b">>, label |-> 0],
       [email |-> <<"B", "b", " ", "a", "b">>, label |-> 0],
       [email |-> <<"b", "b">>, label |-> 0] >>

\* train_model is started with no dataset path, with a CSV, or with a CSV
\* that lacks a recognised text or label column
InitTrain ==
    /\ \E present \in BOOLEAN :
          /\ modelFile = IF present THEN ModelOf(PriorFit, "prior") ELSE Absent
          /\ vecFile = IF present THEN VectorizerOf(PriorFit, "prior") ELSE Absent
    /\ phase = "off" /\ lpc = "none"
    /\ model = None /\ vectorizer = None /\ model_load_error = None
    /\ loadExc = "none" /\ loadCalls = 0
    /\ resp = NoResp /\ healthSeen = "none"
    /\ tpc = "idle" /\ fitted = None
    /\ preModelFile = modelFile /\ preVecFile = vecFile
    /\ \/ \E src \in {"sample", "csv_without_columns"} :
             tr = [NoTraining EXCEPT !.pc = "start", !.source = src]
       \/ \E rows \in Datasets :
             tr = [NoTraining EXCEPT !.pc = "start", !.source = "csv",
                                     !.rows = rows]

\* an exception leaves train_model before the persistence step
TrainRaise ==
    /\ tpc' = "failed"
    /\ tr' = [tr EXCEPT !.pc = "raised"]
    /\ UNCHANGED <<diskVars, serveVars, fitted, preModelFile, preVecFile>>

\* df = load_or_create_dataset(dataset_path)
load_or_create_dataset ==
    /\ tpc = "idle" /\ tr.pc = "start"
    /\ IF tr.source = "csv_without_columns"
       THEN TrainRaise
       ELSE /\ tr' = [tr EXCEPT
                        !.pc = "loaded",
                        !.df = IF tr.source = "sample" THEN SampleDataset
                               ELSE [i \in 1..Len(tr.rows) |->
                                       [email |-> tr.rows[i].email,
                                        label |-> LabelTo01(tr.rows[i].label)]]]
            /\ UNCHANGED <<diskVars, serveVars, tpc, fitted, preModelFile,
                           preVecFile>>

NonEmptyEmail(row) == Len(row.email) > 0

\* df['email'].apply(preprocess_text); df = df[df['email'].str.len() > 0]
preprocess ==
    /\ tpc = "idle" /\ tr.pc = "loaded"
    /\ tr' = [tr EXCEPT
                !.pc = "preprocessed",
                !.df = SelectSeq([i \in 1..Len(tr.df) |->
                                    [email |-> preprocess_text(tr.df[i].email),
                                     label |-> tr.df[i].label]],
                                 NonEmptyEmail)]
    /\ UNCHANGED <<diskVars, serveVars, tpc, fitted, preModelFile, preVecFile>>

\* sizes of the two partitions: ceil(0.2 n) and floor(0.8 n)
NTest(n) == (TestPercent * n + 99) \div 100
NTrain(n) == ((100 - TestPercent) * n) \div 100

ClassCount(df, c) == Cardinality({i \in 1..Len(df) : df[i].label = c})
ClassesOf(df) == {df[i].label : i \in 1..Len(df)}

\* train_test_split(..., stratify=y) raises ValueError
SplitRaises(df) ==
    \/ Len(df) = 0
    \/ NTrain(Len(df)) = 0
    \/ \E c \in ClassesOf(df) : ClassCount(df, c) < 2
    \/ NTrain(Len(df)) < Cardinality(ClassesOf(df))
    \/ NTest(Len(df)) < Cardinality(ClassesOf(df))

\* per-class sizes of the train partition: proportional, rounded down, the
\* rest given to the classes with the largest remainders
TrainAllocations(df) ==
    LET n == Len(df)
        cls == ClassesOf(df)
        floorOf(c) == (NTrain(n) * ClassCount(df, c)) \div n
        remOf(c) == (NTrain(n) * ClassCount(df, c)) % n
        floors == SumSeq([k \in 1..2 |->
                     IF (k - 1) \in cls THEN floorOf(k - 1) ELSE 0])
        need == NTrain(n) - floors
    IN  { [c \in cls |-> floorOf(c) + (IF c \in U THEN 1 ELSE 0)] :
            U \in { V \in SUBSET cls :
                      /\ Cardinality(V) = need
                      /\ \A c \in V, e \in cls \ V : remOf(c) >= remOf(e) } }

\* the row indices of a stratified train partition
TrainIndexSets(df) ==
    { S \in SUBSET (1..Len(df)) :
        \E alloc \in TrainAllocations(df) :
            \A c \in ClassesOf(df) :
                Cardinality({i \in S : df[i].label = c}) = alloc[c] }

\* the rows of df at the indices of S, in index order
RECURSIVE Pick(_, _, _)
Pick(df, S, i) ==
    IF i > Len(df) THEN <<>>
    ELSE (IF i \in S THEN <<df[i]>> ELSE <<>>) \o Pick(df, S, i + 1)

\* X_train, X_test, y_train, y_test = train_test_split(...)
split ==
    /\ tpc = "idle" /\ tr.pc = "preprocessed"
    /\ IF SplitRaises(tr.df)
       THEN TrainRaise
       ELSE /\ \E S \in TrainIndexSets(tr.df) :
                 LET trn == Pick(tr.df, S, 1)
                     tst == Pick(tr.df, (1..Len(tr.df)) \ S, 1)
                 IN  tr' = [tr EXCEPT
                              !.pc = "split",
                              !.X_train = [i \in 1..Len(trn) |-> trn[i].email],
                              !.y_train = [i \in 1..Len(trn) |-> trn[i].label],
                              !.X_test = [i \in 1..Len(tst) |-> tst[i].email],
                              !.y_test = [i \in 1..Len(tst) |-> tst[i].label]]
            /\ UNCHANGED <<diskVars, serveVars, tpc, fitted, preModelFile,
                           preVecFile>>

\* vectorizer.fit_transform(X_train); vectorizer.transform(X_test)
vectorize ==
    /\ tpc = "idle" /\ tr.pc = "split"
    /\ IF VectorizerFitRaises(FitCorpus(tr.X_train, tr.X_test))
       THEN TrainRaise
       ELSE /\ tr' = [tr EXCEPT
                        !.pc = "vectorized",
                        !.vec = VectorizerFit(FitCorpus(tr.X_train, tr.X_test))]
            /\ UNCHANGED <<diskVars, serveVars, tpc, fitted, preModelFile,
                           preVecFile>>

\* a fit step that saves the model as soon as it is fitted
fit_classifier_saving ==
    /\ tpc = "idle" /\ tr.pc = "vectorized"
    /\ IF Cardinality(Range(tr.y_train)) < 2
       THEN TrainRaise
       ELSE /\ \E w \in [1..Len(tr.vec.vocabulary) -> CoefValues],
                  b \in InterceptValues :
                 /\ tr' = [tr EXCEPT !.pc = "trained",
                                     !.clf = [coef |-> w, intercept |-> b]]
                 /\ modelFile' = ModelOf([coef |-> w, intercept |-> b], "this")
            /\ UNCHANGED <<vecFile, serveVars, tpc, fitted, preModelFile,
                           preVecFile>>

\* model.fit(X_train_vectorized, y_train): needs two classes; the fitted
\* coefficients are the solver's
fit_classifier ==
    /\ tpc = "idle" /\ tr.pc = "vectorized"
    /\ IF Cardinality(Range(tr.y_train)) < 2
       THEN TrainRaise
       ELSE /\ \E w \in [1..Len(tr.vec.vocabulary) -> CoefValues],
                  b \in InterceptValues :
                 tr' = [tr EXCEPT !.pc = "trained",
                                  !.clf = [coef |-> w, intercept |-> b]]
            /\ UNCHANGED <<diskVars, serveVars, tpc, fitted, preModelFile,
                           preVecFile>>

\* y_test_pred = model.predict(X_test_vectorized)
TestPredictions(t) ==
    [i \in 1..Len(t.X_test) |-> Predict(t.clf, Transform(t.vec, t.X_test[i]))]

\* the metrics and classification_report(..., target_names=[2 names]), which
\* raises when y_test and y_test_pred together hold another number of classes
evaluate ==
    /\ tpc = "idle" /\ tr.pc = "trained"
    /\ IF Cardinality(Range(tr.y_test) \cup Range(TestPredictions(tr))) # 2
       THEN TrainRaise
       ELSE /\ tr' = [tr EXCEPT !.pc = "evaluated"]
            /\ fitted' = [vocabulary |-> tr.vec.vocabulary, idf |-> tr.vec.idf,
                          coef |-> tr.clf.coef, intercept |-> tr.clf.intercept]
            /\ tpc' = "fitted"
            /\ UNCHANGED <<diskVars, serveVars, preModelFile, preVecFile>>

NextTrain ==
    \/ load_or_create_dataset
    \/ preprocess
    \/ split
    \/ vectorize
    \/ fit_classifier
    \/ evaluate
    \/ train_model_dump_model_open
    \/ train_model_dump_model_close
    \/ train_model_dump_vectorizer_open
    \/ train_model_dump_vectorizer_close
    \/ train_model_raise

SpecTrain == InitTrain /\ [][NextTrain]_vars

\* ------------------------------------------------------------ specification
Next ==
    \/ process_start
    \/ load_models_check_model
    \/ load_models_check_vectorizer
    \/ load_models_load_model
    \/ load_models_load_vectorizer
    \/ lifespan_yield
    \/ lifespan_shutdown
    \/ predict
    \/ root
    \/ health
    \/ train_model_fit
    \/ train_model_dump_model_open
    \/ train_model_dump_model_close
    \/ train_model_dump_vectorizer_open
    \/ train_model_dump_vectorizer_close
    \/ train_model_raise

Spec == Init /\ [][Next]_vars

TypeOK ==
    /\ phase \in {"off", "starting", "running", "stopped", "crashed"}
    /\ resp.status \in {0, 200, 400, 500, 503}

\* ------------------------------------------------------------------ claims
\* the lifespan has passed startup in this process
StartupOver == phase \in {"running", "stopped", "crashed"}

\* C1: when load_models finds phish_model.pkl or vectorizer.pkl absent,
\* startup still completes (the process runs, it does not crash) and every
\* predict call of that process, whatever its text, is answered 503 without
\* vectorizer.transform or model.predict being invoked.
C1_MissingFilesServe503 ==
    (loadExc = "FileNotFoundError" /\ StartupOver) =>
        /\ phase \in {"running", "stopped"}
        /\ resp.kind = "predict" =>
               (resp.status = 503 /\ ~resp.transformed /\ ~resp.predicted)

C1_Witness ==
    /\ loadExc = "FileNotFoundError"
    /\ phase = "running"
    /\ resp.kind = "predict" /\ resp.status = 503 /\ ~resp.empty

\* C2 as stated: every predict call whose text is empty or whitespace-only
\* is answered 400, and neither transform nor predict is invoked for it.
C2_EmptyAlways400 ==
    (resp.kind = "predict" /\ resp.empty) =>
        (resp.status = 400 /\ ~resp.transformed /\ ~resp.predicted)

\* C2 amended: a predict call whose text is empty or whitespace-only never
\* reaches transform or predict; it is answered 400 when both artifacts were
\* loaded and 503 when they were not.
C2_EmptyRejected ==
    (resp.kind = "predict" /\ resp.empty) =>
        /\ ~resp.transformed /\ ~resp.predicted
        /\ resp.status = IF loadExc = "none" THEN 400 ELSE 503

C2_Witness ==
    /\ resp.kind = "predict" /\ resp.empty
    /\ resp.status = 400 /\ loadExc = "none" /\ phase = "running"

\* C3: whenever predict applies transform, the in-memory model and
\* vectorizer come from the same training run (a mixed pair is rejected at
\* load, or at least flagged in model_load_error, instead of being served).
C3_ServedPairSameRun ==
    (phase = "running" /\ resp.kind = "predict" /\ resp.transformed) =>
        (model.run = vectorizer.run \/ model_load_error # None)

\* C4: when train_model has ended, normally or not, the two files are both
\* the ones this run produced or both as they were before the run.
C4_BothOrNeither ==
    tpc \in {"done", "failed"} =>
        \/ (modelFile = preModelFile /\ vecFile = preVecFile)
        \/ (/\ fitted # None
            /\ modelFile = ModelOf(fitted, "this")
            /\ vecFile = VectorizerOf(fitted, "this"))

\* C5: load_models is called once per process, during startup only, and no
\* step taken while the application is running changes model or vectorizer.
C5_LoadedOnceThenFrozen ==
    [][ /\ (phase' = "running" => (loadCalls' = 1 /\ lpc' = "none"))
        /\ (phase = "running" /\ phase' = "running") =>
               (model' = model /\ vectorizer' = vectorizer) ]_vars

C5_Witness ==
    /\ phase = "running" /\ loadExc = "none"
    /\ model.kind = "model" /\ vectorizer.kind = "vectorizer"
    /\ model.run = "this"
    /\ resp.kind = "health"

\* C6: every prediction result carries a confidence between 0.5 and 1.0.
C6_ConfidenceBound ==
    (resp.kind = "predict" /\ resp.status = 200) =>
        (2 * resp.confidence >= Scale /\ resp.confidence <= Scale)

C6_Witness ==
    /\ resp.kind = "predict" /\ resp.status = 200
    /\ ~resp.phishing /\ resp.decision < 0 /\ 2 * resp.confidence > Scale

\* C7: the confidence is the probability of the predicted class: the class-1
\* probability when the label is phishing, one minus it when the label is
\* safe.
C7_ConfidenceOfPredictedClass ==
    (resp.kind = "predict" /\ resp.status = 200) =>
        resp.confidence = IF resp.phishing THEN resp.score
                          ELSE Scale - resp.score

C7_Witness ==
    /\ resp.kind = "predict" /\ resp.status = 200
    /\ resp.phishing /\ resp.confidence = resp.score /\ resp.score < Scale

\* C8 as stated: the label is phishing exactly when score >= 0.5, so a score
\* of exactly 0.5 is labelled phishing.
C8_PhishingIffScoreAtLeastHalf ==
    (resp.kind = "predict" /\ resp.status = 200) =>
        (resp.phishing <=> 2 * resp.score >= Scale)

\* C8 amended: the label is phishing exactly when the decision value
\* w.v + b is positive; a decision value of 0 (score exactly 0.5) is
\* labelled safe.  A phishing label has score >= 0.5, a safe one <= 0.5.
C8_PhishingIffDecisionPositive ==
    (resp.kind = "predict" /\ resp.status = 200) =>
        /\ resp.phishing <=> resp.decision > 0
        /\ resp.phishing => 2 * resp.score >= Scale
        /\ ~resp.phishing => 2 * resp.score <= Scale

C8_Witness ==
    /\ resp.kind = "predict" /\ resp.status = 200
    /\ resp.decision = 0 /\ 2 * resp.score = Scale /\ ~resp.phishing

\* C9 as stated: after a deserialization failure in load_models the process
\* never enters the running state and answers no request.
C9_CorruptFatalToStartup ==
    loadExc = "RuntimeError" => (phase # "running" /\ resp.kind = "none")

\* C9 amended: a deserialization failure in load_models is not fatal: it is
\* recorded in model_load_error, lifespan catches the RuntimeError and the
\* process enters the running state.
C9_CorruptStartsDegraded ==
    [][ (phase = "starting" /\ phase' # "starting"
            /\ loadExc = "RuntimeError") =>
        (phase' = "running"
            /\ model_load_error' = Str("Error loading model files")) ]_vars

C9_Witness ==
    /\ loadExc = "RuntimeError" /\ phase = "running"
    /\ model = None /\ resp.kind = "root" /\ resp.error

\* C10: any error raised by load_models (missing file, or a deserialization
\* failure of the model or of the vectorizer) leaves the process running,
\* and every predict call until shutdown is answered 503.
C10_LoadErrorDegrades ==
    (loadExc # "none" /\ StartupOver) =>
        /\ phase \in {"running", "stopped"}
        /\ (phase = "running" => (model = None \/ vectorizer = None))
        /\ resp.kind = "predict" => resp.status = 503

C10_Witness ==
    /\ loadExc = "RuntimeError" /\ phase = "running"
    /\ model # None /\ vectorizer = None
    /\ resp.kind = "predict" /\ resp.status = 503

\* C11: while the application runs, /health reports both flags true exactly
\* when the globals are both loaded, which is exactly when predict does not
\* answer 503; so within one process a /health report of both flags true
\* and a 503 from predict never occur together.
C11_HealthAgreesWithPredict ==
    /\ (phase = "running" /\ resp.kind = "health") =>
           ((resp.model_loaded /\ resp.vectorizer_loaded)
               <=> (model # None /\ vectorizer # None))
    /\ (healthSeen # "none" /\ resp.kind = "predict") =>
           (resp.status # 503 <=> healthSeen = "both")

C11_Witness ==
    /\ phase = "running" /\ healthSeen = "both"
    /\ resp.kind = "predict" /\ resp.status = 200

\* C13: a predict call that ends in 400, 503 or 500 leaves model, vectorizer
\* and model_load_error as they were.
C13_FailedRequestChangesNothing ==
    [][ (phase = "running" /\ resp' # resp /\ resp'.kind = "predict"
            /\ resp'.status \in {400, 500, 503}) =>
        (model' = model /\ vectorizer' = vectorizer
            /\ model_load_error' = model_load_error) ]_vars

C13_Witness ==
    /\ phase = "running" /\ resp.kind = "predict" /\ resp.status = 500
    /\ model # None /\ vectorizer # None /\ model_load_error = None
    /\ healthSeen = "both"

\* C17: with artifacts loaded, a text with a non-whitespace character and no
\* n-gram in the fitted vocabulary is transformed to the zero vector and
\* predict answers it with a prediction result (200), not an error.
C17_OutOfVocabularyServed ==
    (resp.kind = "predict" /\ resp.oov) =>
        (resp.zero /\ resp.status = 200)

\* C18: when load_models returns, model and vectorizer are set and
\* model_load_error is None; when it raises, model_load_error is set and
\* model or vectorizer is None; so root and health carry an error field
\* exactly when they do not report both artifacts loaded.
C18_LoadErrorFlagConsistent ==
    /\ lpc = "returned" =>
           (model # None /\ vectorizer # None /\ model_load_error = None)
    /\ lpc = "raised" =>
           (model_load_error # None /\ (model = None \/ vectorizer = None))
    /\ resp.kind \in {"health", "root"} =>
           (resp.error <=> ~(resp.model_loaded /\ resp.vectorizer_loaded))

C18_Witness ==
    /\ lpc = "raised" /\ loadExc = "RuntimeError"
    /\ model # None /\ vectorizer = None /\ model_load_error # None

\* C15 as stated: a label value is mapped to 1 exactly when its lower-cased
\* string form is one of "1", "true", "phishing", "yes".
C15_TruthyFourStrings ==
    tr.pc = "labels_mapped" =>
        \A i \in 1..Len(tr.raw) :
            tr.label[i] = 1 <=>
                Lower(tr.raw[i]) \in
                    { <<"1">>, <<"t", "r", "u", "e">>,
                      <<"p", "h", "i", "s", "h", "i", "n", "g">>,
                      <<"y", "e", "s">> }

\* C15 amended: a label value is mapped to 1 exactly when its lower-cased
\* string form is one of "1", "true", "phishing", "yes", "1.0", and to 0
\* otherwise.
C15_TruthyFiveStrings ==
    tr.pc = "labels_mapped" =>
        \A i \in 1..Len(tr.raw) :
            /\ tr.label[i] \in {0, 1}
            /\ tr.label[i] = 1 <=>
                Lower(tr.raw[i]) \in
                    { <<"1">>, <<"t", "r", "u", "e">>,
                      <<"p", "h", "i", "s", "h", "i", "n", "g">>,
                      <<"y", "e", "s">>, <<"1", ".", "0">> }

C15_Witness ==
    /\ tr.pc = "labels_mapped"
    /\ \E i \in 1..Len(tr.raw) :
           tr.raw[i] = <<"1", ".", "0">> /\ tr.label[i] = 1
    /\ \E i \in 1..Len(tr.raw) :
           tr.raw[i] = <<"Y", "E", "S">> /\ tr.label[i] = 1

\* C14: the vocabulary and the idf weights of a training run are those of
\* the train partition alone: the terms whose document frequency within
\* X_train passes min_df and max_df, weighted by their document frequency
\* within X_train, whatever X_test holds.
C14_VocabularyFromTrainOnly ==
    tr.vec # None =>
        /\ Range(tr.vec.vocabulary) = KeptTerms(tr.X_train)
        /\ \A i \in 1..Len(tr.vec.vocabulary) :
               tr.vec.idf[i] =
                   Idf(Len(tr.X_train),
                       DocFreq(tr.X_train, tr.vec.vocabulary[i]))

C14_Witness ==
    /\ tr.vec # None
    /\ \E t \in KeptTerms(tr.X_train \o tr.X_test) :
           t \notin Range(tr.vec.vocabulary)
    /\ \E i \in 1..Len(tr.vec.vocabulary) :
           DocFreq(tr.X_test, tr.vec.vocabulary[i]) > 0

\* C16: when train_model fails before its persistence step (loading the
\* dataset, the split, either fit, the evaluation), both artifact files are
\* as they were before the run.
C16_FailureBeforeSaveWritesNothing ==
    [][ (tpc \in {"idle", "fitted"} /\ tpc' = "failed") =>
        (modelFile' = preModelFile /\ vecFile' = preVecFile) ]_vars

C16_Witness ==
    /\ tpc = "failed" /\ tr.pc = "raised"
    /\ tr.vec # None /\ tr.clf = None
    /\ modelFile = ModelOf(PriorFit, "prior") /\ vecFile = preVecFile

====
